---- MODULE Spec2Model ----
(***************************************************************************)
(* Neural Bridge: the React client (frontend/src/App.js) of the LLM-to-LLM *)
(* communication hub, together with the HTTP surface it consumes.          *)
(*                                                                         *)
(* The client's state is the set of useState cells of App; its operations  *)
(* are the event handlers and the continuations of their awaited requests. *)
(* A handler that awaits a request is split at the await: the part before  *)
(* it is one action, the continuation (then / catch / finally) is another, *)
(* and the request in between is a message in flight.  A continuation      *)
(* reads the state cells through the closure of the render in which the    *)
(* handler was invoked, so each call record keeps what was captured.       *)
(***************************************************************************)
EXTENDS Integers, Sequences, FiniteSets, TLC

-----------------------------------------------------------------------------
(* Bounds of the model *)

\* actions of the operator explored: edits of the form, clicks of Initialize,
\* clicks of Extract
MaxOps == 4

\* POST /session calls explored
MaxCreates == 2

-----------------------------------------------------------------------------
(* Optional values: null is the empty tuple, a value v is <<v>> *)

Null == << >>

Some(v) == << v >>

Val(o) == o[1]

-----------------------------------------------------------------------------
(* Model registry, protocols *)

ProviderOrder == << "openai", "anthropic", "gemini" >>

Providers == { ProviderOrder[i] : i \in 1..Len(ProviderOrder) }

Descriptor(p, m, d) == [provider |-> p, model_name |-> m, display_name |-> d]

Registry ==
    [ p \in Providers |->
        CASE p = "openai" ->
               << Descriptor("openai", "gpt-4o", "GPT-4o"),
                  Descriptor("openai", "gpt-4o-mini", "GPT-4o Mini") >>
          [] p = "anthropic" ->
               << Descriptor("anthropic", "claude-sonnet-4", "Claude Sonnet 4") >>
          [] p = "gemini" ->
               << Descriptor("gemini", "gemini-2.0-flash", "Gemini 2.0 Flash") >> ]

\* the registry's first-listed provider
DefaultProvider == ProviderOrder[1]

\* const protocols = [...]
protocols == { "mcp", "gibberlink", "droidspeak", "natural" }

Tabs == { "setup", "communicate", "results", "monitor" }

\* the values an API key field is given: empty, or a key
KeyValues == { "", "sk-key" }

-----------------------------------------------------------------------------
(* Text: a query is a sequence of characters *)

IsSpace(c) == c \in { " ", "\n", "\t" }

RECURSIVE TrimStart(_)
TrimStart(s) ==
    IF s = << >> THEN << >>
    ELSE IF IsSpace(Head(s)) THEN TrimStart(Tail(s)) ELSE s

RECURSIVE TrimEnd(_)
TrimEnd(s) ==
    IF s = << >> THEN << >>
    ELSE IF IsSpace(s[Len(s)]) THEN TrimEnd(SubSeq(s, 1, Len(s) - 1)) ELSE s

\* String.prototype.trim
Trim(s) == TrimEnd(TrimStart(s))

\* provider.charAt(0).toUpperCase() + provider.slice(1)
Capitalize(p) ==
    CASE p = "openai" -> "Openai"
      [] p = "anthropic" -> "Anthropic"
      [] p = "gemini" -> "Gemini"
      [] OTHER -> p

\* the values typed into the query box
Queries ==
    { << >>,
      << " " >>,
      << " ", "h", "i" >> }

-----------------------------------------------------------------------------
(* State *)

VARIABLES
    \* the useState cells of App
    models, sessions, currentSession, hostLLM, targetLLM, protocol, query,
    result, isExtracting, error, activeTab, apiKeys,
    \* the two requests of the mount effect
    fetchModelsCall, fetchSessionsCall,
    \* the POST /session and POST /extract calls made so far, in call order
    creates, extracts,
    \* extractInformation invocations that returned at the guard of line 107,
    \* and the operator's actions so far
    guardReturns, ops,
    \* the server's session store
    store,
    \* the extraction the orchestrator is running
    orch

appVars ==
    << models, sessions, currentSession, hostLLM, targetLLM, protocol, query,
       result, isExtracting, error, activeTab, apiKeys >>

netVars == << fetchModelsCall, fetchSessionsCall, creates, extracts >>

countVars == << guardReturns, ops >>

serverVars == << store, orch >>

vars == << appVars, netVars, countVars, serverVars >>

-----------------------------------------------------------------------------
(* The server's HTTP surface *)

\* protocols that are only meaningful when host and target share a provider
RestrictedProtocols == { "droidspeak" }

CrossProviderOk(host, target, proto) ==
    proto \in RestrictedProtocols => host.provider = target.provider

UnsupportedDetail(proto) ==
    "Protocol " \o proto \o " supports only OpenAI-to-OpenAI style same-provider pairs"

\* String.prototype.includes('only OpenAI') over the details the server sends
IncludesOnlyOpenAI(detail) ==
    detail \in { UnsupportedDetail(p) : p \in protocols }

\* the Session of a response body: the credential bag is never echoed back
SessionView(s) ==
    [id |-> s.id, host_llm |-> s.host_llm, target_llm |-> s.target_llm,
     protocol |-> s.protocol, status |-> s.status]

\* Session Store create: a fresh id, status active
StoreCreate(body) ==
    [id |-> Len(store) + 1, host_llm |-> body.host_llm,
     target_llm |-> body.target_llm, protocol |-> body.protocol,
     status |-> "active", credential_bag |-> body.api_keys]

\* Session Store list, in creation order
StoreList == [ i \in 1..Len(store) |-> SessionView(store[i]) ]

\* a session left in the store by an earlier page load
EarlierSession ==
    [id |-> 1, host_llm |-> Registry["openai"][1],
     target_llm |-> Registry["openai"][2], protocol |-> "natural",
     status |-> "active",
     credential_bag |-> [ p \in Providers |-> "" ]]

Response(status, data) == [status |-> status, data |-> data]

\* POST /session: 201 Session, or 400 {detail}
HandleSession(body) ==
    IF CrossProviderOk(body.host_llm, body.target_llm, body.protocol)
    THEN Response(201, SessionView(StoreCreate(body)))
    ELSE Response(400, [detail |-> UnsupportedDetail(body.protocol)])

-----------------------------------------------------------------------------
(* The extraction orchestrator behind POST /extract *)

ToLower(c) ==
    CASE c = "D" -> "d" [] c = "E" -> "e" [] c = "M" -> "m" [] c = "O" -> "o"
      [] c = "T" -> "t" [] c = "S" -> "s" [] c = "H" -> "h" [] c = "I" -> "i"
      [] OTHER -> c

Lower(s) == [ i \in 1..Len(s) |-> ToLower(s[i]) ]

\* pat occurs in s as a substring
Contains(s, pat) ==
    \E i \in 0..(Len(s) - Len(pat)) : SubSeq(s, i + 1, i + Len(pat)) = pat

\* the query contains, case-insensitively, the trigger "demo" or "test"
IsDemoQuery(q) ==
    \/ Contains(Lower(q), << "d", "e", "m", "o" >>)
    \/ Contains(Lower(q), << "t", "e", "s", "t" >>)

\* a credential in the bag, or the process-wide fallback for the default provider
HasUsableKey(bag, provider, fallback) ==
    \/ bag[provider] # ""
    \/ provider = DefaultProvider /\ fallback

DemoDetected(sess, q, fallback) ==
    \/ IsDemoQuery(q)
    \/ /\ ~HasUsableKey(sess.credential_bag, sess.host_llm.provider, fallback)
       /\ ~HasUsableKey(sess.credential_bag, sess.target_llm.provider, fallback)

ErrorKinds == { "Validation", "Unauthorized", "RateLimited",
                "UnsupportedProviderForProtocol", "Unknown" }

\* status-code contract
StatusOf(kind) ==
    CASE kind = "Validation" -> 400
      [] kind = "UnsupportedProviderForProtocol" -> 400
      [] kind = "Unauthorized" -> 401
      [] kind = "RateLimited" -> 429
      [] OTHER -> 500

\* what a provider answers to one invocation that reaches it
ProviderOutcomes == { "ok", "Unauthorized", "RateLimited", "Unknown" }

\* Provider Client invoke: fails fast when no key is usable
Invoke(bag, provider, fallback, outcome) ==
    IF ~HasUsableKey(bag, provider, fallback) THEN "Unauthorized" ELSE outcome

DetailOf(kind, provider, proto) ==
    CASE kind = "Validation" -> "Query must not be empty"
      [] kind = "UnsupportedProviderForProtocol" -> UnsupportedDetail(proto)
      [] kind = "Unauthorized" -> "Missing or rejected API key for provider " \o provider
      [] kind = "RateLimited" -> "Quota exhausted at provider " \o provider
      [] OTHER -> "Unexpected failure calling provider " \o provider

Failure(kind, provider, proto) ==
    Response(StatusOf(kind), [detail |-> DetailOf(kind, provider, proto)])

\* the label every synthetic text starts with
DemoLabel == << "[", "D", "E", "M", "O", "]", " " >>

DemoResult(q, proto) ==
    [query |-> q, target_response |-> DemoLabel \o << "o", "k" >>,
     host_analysis |-> "[DEMO] simulated host analysis", protocol_used |-> proto]

\* Protocol codecs: a wire form is a sequence of characters, as a text is

Digits == << "0", "1", "2", "3", "4", "5", "6", "7", "8", "9" >>

\* DroidSpeak header: a magic character, the encoding version, the payload length
DroidHeader(text) == << "D", "1", Digits[Len(text) + 1] >>

\* GibberLink substitution table: the fragment "ok" is the token "#"
RECURSIVE GibberEncode(_)
GibberEncode(s) ==
    IF s = << >> THEN << >>
    ELSE IF Len(s) >= 2 /\ SubSeq(s, 1, 2) = << "o", "k" >>
         THEN << "#" >> \o GibberEncode(SubSeq(s, 3, Len(s)))
         ELSE << Head(s) >> \o GibberEncode(Tail(s))

\* every known token is expanded, every other character passes through
RECURSIVE GibberDecode(_)
GibberDecode(s) ==
    IF s = << >> THEN << >>
    ELSE (IF Head(s) = "#" THEN << "o", "k" >> ELSE << Head(s) >>)
            \o GibberDecode(Tail(s))

\* encode(query) -> wireForm
Encode(proto, text) ==
    CASE proto = "mcp" -> << "{" >> \o text \o << "}" >>
      [] proto = "gibberlink" -> GibberEncode(text)
      [] proto = "droidspeak" -> DroidHeader(text) \o text
      [] OTHER -> text

\* the DroidSpeak header of raw is intact and the payload has the length it records
DroidHeaderOk(raw) ==
    /\ Len(raw) >= 3
    /\ Len(raw) - 3 < Len(Digits)
    /\ SubSeq(raw, 1, 3) = DroidHeader(SubSeq(raw, 4, Len(raw)))

\* decode(raw) -> canonicalText: Some(text), or Null for a ProtocolDecodeFailure;
\* MCP falls back to the raw payload when it is no envelope
CodecDecode(proto, raw) ==
    CASE proto = "mcp" ->
            IF Len(raw) >= 2 /\ raw[1] = "{" /\ raw[Len(raw)] = "}"
            THEN Some(SubSeq(raw, 2, Len(raw) - 1))
            ELSE Some(raw)
      [] proto = "gibberlink" -> Some(GibberDecode(raw))
      [] proto = "droidspeak" ->
            IF DroidHeaderOk(raw) THEN Some(SubSeq(raw, 4, Len(raw))) ELSE Null
      [] OTHER -> Some(raw)

Decode_NoFallback(proto, raw) ==
    IF CodecDecode(proto, raw) = Null THEN << >> ELSE Val(CodecDecode(proto, raw))

\* step 5: the canonical text of the target's raw answer; a
\* ProtocolDecodeFailure is recovered by taking the raw answer as plain text
Decode(proto, raw) ==
    IF CodecDecode(proto, raw) = Null THEN raw ELSE Val(CodecDecode(proto, raw))

\* the text a target answers with when the page is served
AnswerText == << "o", "k" >>

LiveResult(sess, q, proto) ==
    [query |-> q,
     target_response |-> Decode(proto, Encode(proto, AnswerText)),
     host_analysis |-> "analysis by " \o sess.host_llm.model_name,
     protocol_used |-> proto]

\* POST /extract for a stored session: 200 ExtractionResult, or 400/401/429/500
\* {detail}; tOut and hOut are what the target and the host provider answer
Orchestrate(sess, q, proto, fallback, tOut, hOut) ==
    LET tp == sess.target_llm.provider
        hp == sess.host_llm.provider
        t == Invoke(sess.credential_bag, tp, fallback, tOut)
        h == Invoke(sess.credential_bag, hp, fallback, hOut)
    IN  IF Trim(q) = << >> THEN Failure("Validation", tp, proto)
        ELSE IF ~CrossProviderOk(sess.host_llm, sess.target_llm, proto)
             THEN Failure("UnsupportedProviderForProtocol", tp, proto)
        ELSE IF DemoDetected(sess, q, fallback)
             THEN Response(200, DemoResult(q, proto))
        ELSE IF t # "ok" THEN Failure(t, tp, proto)
        ELSE IF h # "ok" THEN Failure(h, hp, proto)
        ELSE Response(200, LiveResult(sess, q, proto))

StoreIds == { store[i].id : i \in 1..Len(store) }

StoreGet(id) == store[CHOOSE i \in 1..Len(store) : store[i].id = id]

\* every response POST /extract can give to a request body: the page sees
\* neither what the providers answer nor whether the server's deployment
\* configures a process-wide key
HandleExtract(body) ==
    IF body.session_id \notin StoreIds
    THEN { Response(400, [detail |-> "Unknown session"]) }
    ELSE { Orchestrate(StoreGet(body.session_id), body.query, body.protocol,
                       fallback, tOut, hOut) :
             fallback \in BOOLEAN,
             tOut \in ProviderOutcomes, hOut \in ProviderOutcomes }

-----------------------------------------------------------------------------
(* The orchestrator's state machine, one step at a time:                   *)
(* Received -> (DemoShortcut | Validated) -> TargetInvoked -> HostAnalyzing *)
(* -> Completed, any state -> Failed                                        *)

\* an extraction in state st: the request, the deployment's fallback key, the
\* provider calls issued so far, what the target answered, the decoded answer,
\* the ErrorKind of a failure and the result of a completion
Extraction(st, id, sess, q, proto, fallback, tCalls, hCalls, target, canonical, kind, res) ==
    [state |-> st, session_id |-> id, sess |-> sess, query |-> q, protocol |-> proto,
     fallback |-> fallback, targetCalls |-> tCalls, hostCalls |-> hCalls,
     target |-> target, canonical |-> canonical, kind |-> kind, result |-> res,
     \* the wire form sent to the target, its raw answer, and whether decoding
     \* the answer raised a ProtocolDecodeFailure
     wire |-> << >>, raw |-> << >>, decodeFailed |-> FALSE]

\* what a target can answer: wire forms of "ok" in each protocol, a DroidSpeak
\* answer with a corrupted header, a truncated one, and nothing at all
RawAnswers ==
    { Encode(proto, AnswerText) : proto \in protocols }
        \cup { << "X", "1", "2", "o", "k" >>, << "D", "1", "5", "o", "k" >>, << >> }

OrchIdle == [state |-> "Idle"]

OrchTo(st) == [orch EXCEPT !.state = st]

OrchFail(kind) == [orch EXCEPT !.state = "Failed", !.kind = kind]

\* an extraction touches nothing of the page, and only reads the store
orchFrame == UNCHANGED << appVars, netVars, countVars, store >>

\* steps 1 and 2: validate, then detect the demo path
OrchValidate ==
    /\ orch.state = "Received"
    /\ orch' =
         IF Trim(orch.query) = << >> \/ orch.session_id \notin StoreIds
         THEN OrchFail("Validation")
         ELSE IF ~CrossProviderOk(orch.sess.host_llm, orch.sess.target_llm,
                                  orch.protocol)
              THEN OrchFail("UnsupportedProviderForProtocol")
         ELSE IF DemoDetected(orch.sess, orch.query, orch.fallback)
              THEN OrchTo("DemoShortcut")
         ELSE OrchTo("Validated")
    /\ orchFrame

OrchDemo_InvokesTarget ==
    /\ orch.state = "DemoShortcut"
    /\ orch' = [orch EXCEPT !.state = "TargetInvoked", !.targetCalls = @ + 1]
    /\ orchFrame

\* the demo result: no provider is called
OrchDemo ==
    /\ orch.state = "DemoShortcut"
    /\ orch' = [orch EXCEPT !.state = "Completed",
                            !.result = Some(DemoResult(orch.query, orch.protocol))]
    /\ orchFrame

OrchInvokeTarget_Parallel ==
    /\ orch.state = "Validated"
    /\ orch' = [orch EXCEPT !.state = "TargetInvoked", !.targetCalls = @ + 1,
                            !.hostCalls = @ + 1]
    /\ orchFrame

\* steps 3 and 4: encode, then call the target; without a usable key the
\* client fails before any call
OrchInvokeTarget ==
    /\ orch.state = "Validated"
    /\ orch' =
         IF HasUsableKey(orch.sess.credential_bag, orch.sess.target_llm.provider,
                         orch.fallback)
         THEN [orch EXCEPT !.state = "TargetInvoked", !.targetCalls = @ + 1,
                           !.wire = Encode(orch.protocol, orch.query)]
         ELSE [orch EXCEPT !.state = "Failed", !.kind = "Unauthorized",
                           !.target = "Unauthorized"]
    /\ orchFrame

\* the target call returns: step 5 decodes its answer and step 6 calls the
\* host; a failure ends the extraction with the target's ErrorKind, and a
\* decode failure whose fallback text is empty escalates to Unknown
OrchTargetReturns ==
    /\ orch.state = "TargetInvoked"
    /\ \E outcome \in ProviderOutcomes, raw \in RawAnswers :
         orch' =
           IF outcome # "ok"
           THEN [orch EXCEPT !.state = "Failed", !.kind = outcome,
                             !.target = outcome]
           ELSE LET failed == CodecDecode(orch.protocol, raw) = Null
                    text == Decode(orch.protocol, raw)
                    got == [orch EXCEPT !.target = "ok", !.raw = raw,
                                        !.decodeFailed = failed,
                                        !.canonical = text]
                IN  IF failed /\ text = << >>
                    THEN [got EXCEPT !.state = "Failed", !.kind = "Unknown"]
                    ELSE IF HasUsableKey(orch.sess.credential_bag,
                                         orch.sess.host_llm.provider, orch.fallback)
                    THEN [got EXCEPT !.state = "HostAnalyzing", !.hostCalls = @ + 1]
                    ELSE [got EXCEPT !.state = "Failed", !.kind = "Unauthorized"]
    /\ orchFrame

\* the host call returns: step 7 assembles the result
OrchHostReturns ==
    /\ orch.state = "HostAnalyzing"
    /\ \E outcome \in ProviderOutcomes :
         orch' =
           IF outcome # "ok"
           THEN OrchFail(outcome)
           ELSE [orch EXCEPT !.state = "Completed",
                    !.result = Some([query |-> orch.query,
                        target_response |-> orch.canonical,
                        host_analysis |->
                            "analysis by " \o orch.sess.host_llm.model_name,
                        protocol_used |-> orch.protocol])]
    /\ orchFrame

\* the sessions a store can hold: any two registry models, a protocol their
\* providers are allowed, any keys
OrchSessions ==
    { [id |-> 1, host_llm |-> Registry[hp][1], target_llm |-> Registry[tp][1],
       protocol |-> pr, status |-> "active", credential_bag |-> bag] :
        hp \in Providers, tp \in Providers,
        pr \in { x \in protocols : x \notin RestrictedProtocols },
        bag \in [ Providers -> KeyValues ] }
      \cup
    { [id |-> 1, host_llm |-> Registry[p][1], target_llm |-> Registry[p][1],
       protocol |-> pr, status |-> "active", credential_bag |-> bag] :
        p \in Providers, pr \in RestrictedProtocols,
        bag \in [ Providers -> KeyValues ] }

\* the queries of the requests
OrchQueries ==
    { << >>, << " " >>, << "h", "i" >>, << "d", "e", "m" >>,
      << " ", "D", "e", "m", "o", " " >>, << "a", " ", "T", "E", "S", "T" >> }

-----------------------------------------------------------------------------
(* Construction: the state after the first render and its mount effect *)

NoModels == [ p \in {} |-> << >> ]

\* the useState defaults of hostLLM and targetLLM
DefaultHost == Descriptor("openai", "gpt-4o", "GPT-4o")

DefaultTarget == Descriptor("openai", "gpt-4o-mini", "GPT-4o Mini")

Call(pc, body, resp) == [pc |-> pc, body |-> body, resp |-> resp]

\* a createSession call: captured is the sessions cell of the render that made
\* the call, overlap the earlier calls still awaiting their response
CreateCall(pc, body, resp, captured, overlap, id) ==
    [pc |-> pc, body |-> body, resp |-> resp, captured |-> captured,
     overlap |-> overlap, id |-> id]

Init ==
    /\ models = NoModels
    /\ sessions = << >>
    /\ currentSession = Null
    /\ hostLLM = DefaultHost
    /\ targetLLM = DefaultTarget
    /\ protocol = "mcp"
    /\ query = << >>
    /\ result = Null
    /\ isExtracting = FALSE
    /\ error = Null
    /\ activeTab = "setup"
    /\ apiKeys = [ p \in Providers |-> "" ]
    /\ fetchModelsCall = Call("sent", Null, Null)
    /\ fetchSessionsCall = Call("sent", Null, Null)
    /\ creates = << >>
    /\ extracts = << >>
    /\ guardReturns = 0
    /\ ops = 0
    /\ store \in { << >>, << EarlierSession >> }
    /\ orch = OrchIdle

-----------------------------------------------------------------------------
(* fetchModels, fetchSessions *)

\* GET /models answered: setModels(response.data)
fetchModelsOk ==
    /\ fetchModelsCall.pc = "sent"
    /\ models' = Registry
    /\ fetchModelsCall' = Call("done", Null, Null)
    /\ UNCHANGED << sessions, currentSession, hostLLM, targetLLM, protocol,
                    query, result, isExtracting, error, activeTab, apiKeys,
                    fetchSessionsCall, creates, extracts, countVars, serverVars >>

\* GET /models failed: setError('Failed to load models')
fetchModelsFailed ==
    /\ fetchModelsCall.pc = "sent"
    /\ error' = Some("Failed to load models")
    /\ fetchModelsCall' = Call("failed", Null, Null)
    /\ UNCHANGED << models, sessions, currentSession, hostLLM, targetLLM,
                    protocol, query, result, isExtracting, activeTab, apiKeys,
                    fetchSessionsCall, creates, extracts, countVars, serverVars >>

\* the server answers GET /sessions with the store's list as it is now
ServerSessions ==
    /\ fetchSessionsCall.pc = "sent"
    /\ fetchSessionsCall' = Call("replied", Null, Some(Response(200, StoreList)))
    /\ UNCHANGED << appVars, fetchModelsCall, creates, extracts, countVars,
                    serverVars >>

\* the answer arrives: setSessions(response.data)
fetchSessionsOk ==
    /\ fetchSessionsCall.pc = "replied"
    /\ sessions' = Val(fetchSessionsCall.resp).data
    /\ fetchSessionsCall' = Call("done", Null, Null)
    /\ UNCHANGED << models, currentSession, hostLLM, targetLLM, protocol, query,
                    result, isExtracting, error, activeTab, apiKeys,
                    fetchModelsCall, creates, extracts, countVars, serverVars >>

\* the request fails: console.error only
fetchSessionsFailed ==
    /\ fetchSessionsCall.pc \in { "sent", "replied" }
    /\ fetchSessionsCall' = Call("failed", Null, Null)
    /\ UNCHANGED << appVars, fetchModelsCall, creates, extracts, countVars,
                    serverVars >>

-----------------------------------------------------------------------------
(* The form: ModelSelector, protocol cards, key fields, query box, tabs *)

\* one more action of the operator
Op == ops < MaxOps /\ ops' = ops + 1

ModelsOf(p) == IF p \in DOMAIN models THEN models[p] ELSE << >>

\* the provider select's onChange keeping the model selected before
ProviderChange_KeepsModel(selectedModel, provider) ==
    [selectedModel EXCEPT !.provider = provider]

\* the provider select's onChange: the provider's first-listed model, if any
ProviderChange(selectedModel, provider) ==
    LET firstModel == ModelsOf(provider)
    IN  IF firstModel # << >>
        THEN [provider |-> provider,
              model_name |-> firstModel[1].model_name,
              display_name |-> firstModel[1].display_name]
        ELSE selectedModel

\* the model select's onChange: the model of that name of the selected provider
ModelChange(selectedModel, modelName) ==
    LET list == ModelsOf(selectedModel.provider)
        found == { i \in 1..Len(list) : list[i].model_name = modelName }
    IN  IF found # {}
        THEN LET model == list[CHOOSE i \in found : \A j \in found : i <= j]
             IN  [provider |-> selectedModel.provider,
                  model_name |-> model.model_name,
                  display_name |-> model.display_name]
        ELSE selectedModel

\* the option values the two selects render
ProviderOptions == DOMAIN models

ModelOptions(selectedModel) ==
    LET list == ModelsOf(selectedModel.provider)
    IN  { list[i].model_name : i \in 1..Len(list) }

formFrame ==
    UNCHANGED << models, sessions, currentSession, result, isExtracting, error,
                 netVars, guardReturns, serverVars >>

SetHostProvider ==
    \E p \in ProviderOptions :
        /\ p # hostLLM.provider
        /\ hostLLM' = ProviderChange(hostLLM, p)
        /\ UNCHANGED << targetLLM, protocol, query, activeTab, apiKeys >>
        /\ Op
        /\ formFrame

SetHostModel ==
    \E m \in ModelOptions(hostLLM) :
        /\ m # hostLLM.model_name
        /\ hostLLM' = ModelChange(hostLLM, m)
        /\ UNCHANGED << targetLLM, protocol, query, activeTab, apiKeys >>
        /\ Op
        /\ formFrame

SetTargetProvider ==
    \E p \in ProviderOptions :
        /\ p # targetLLM.provider
        /\ targetLLM' = ProviderChange(targetLLM, p)
        /\ UNCHANGED << hostLLM, protocol, query, activeTab, apiKeys >>
        /\ Op
        /\ formFrame

SetTargetModel ==
    \E m \in ModelOptions(targetLLM) :
        /\ m # targetLLM.model_name
        /\ targetLLM' = ModelChange(targetLLM, m)
        /\ UNCHANGED << hostLLM, protocol, query, activeTab, apiKeys >>
        /\ Op
        /\ formFrame

\* onClick of a protocol card
SetProtocol ==
    \E p \in protocols :
        /\ p # protocol
        /\ protocol' = p
        /\ UNCHANGED << hostLLM, targetLLM, query, activeTab, apiKeys >>
        /\ Op
        /\ formFrame

\* onChange of a key field
SetApiKey ==
    \E p \in Providers, k \in KeyValues :
        /\ k # apiKeys[p]
        /\ apiKeys' = [apiKeys EXCEPT ![p] = k]
        /\ UNCHANGED << hostLLM, targetLLM, protocol, query, activeTab >>
        /\ Op
        /\ formFrame

\* onChange of the query box, which is rendered for a current session only
SetQuery ==
    \E q \in Queries :
        /\ currentSession # Null
        /\ q # query
        /\ query' = q
        /\ UNCHANGED << hostLLM, targetLLM, protocol, activeTab, apiKeys >>
        /\ Op
        /\ formFrame

\* onValueChange of the tabs
SetActiveTab ==
    \E t \in Tabs :
        /\ t # activeTab
        /\ activeTab' = t
        /\ UNCHANGED << hostLLM, targetLLM, protocol, query, apiKeys >>
        /\ Op
        /\ formFrame

\* the Clear Error button of the results tab
ClearError ==
    /\ error # Null
    /\ Op
    /\ error' = Null
    /\ UNCHANGED << models, sessions, currentSession, hostLLM, targetLLM,
                    protocol, query, result, isExtracting, activeTab, apiKeys,
                    netVars, guardReturns, serverVars >>

-----------------------------------------------------------------------------
(* createSession *)

\* the comparison of lines 75 and 80 inverted (=== for !==)
KeyMissing_Inverted(llm) == apiKeys[llm.provider] = "" /\ llm.provider = "openai"

\* !key && llm.provider !== 'openai'
KeyMissing(llm) == apiKeys[llm.provider] = "" /\ llm.provider # "openai"

KeyError(llm, role) ==
    "Please provide " \o Capitalize(llm.provider) \o " API key for the "
        \o role \o " LLM"

sessionData ==
    [host_llm |-> hostLLM, target_llm |-> targetLLM, protocol |-> protocol,
     api_keys |-> [ p \in Providers |-> apiKeys[p] ]]

\* the POST /session calls that still await their response
PendingCreates == { i \in 1..Len(creates) : creates[i].pc \in { "sent", "replied" } }

\* axios resolves a 2xx response and rejects any other
IsSuccess(status) == status >= 200 /\ status < 300

\* error.response?.data?.detail || fallback
DetailOr(resp, fallback) ==
    IF resp # Null /\ "detail" \in DOMAIN Val(resp).data /\ Val(resp).data.detail # ""
    THEN Val(resp).data.detail
    ELSE fallback

\* the Initialize button: the key checks, then POST /session
createSession ==
    /\ DOMAIN models # {}
    /\ Op
    /\ Len(creates) < MaxCreates
    /\ IF KeyMissing(hostLLM)
       THEN /\ error' = Some(KeyError(hostLLM, "host"))
            /\ UNCHANGED creates
       ELSE IF KeyMissing(targetLLM)
       THEN /\ error' = Some(KeyError(targetLLM, "target"))
            /\ UNCHANGED creates
       ELSE /\ error' = Null
            /\ creates' = Append(creates,
                   CreateCall("sent", Some(sessionData), Null, sessions,
                              PendingCreates, 0))
    /\ UNCHANGED << models, sessions, currentSession, hostLLM, targetLLM,
                    protocol, query, result, isExtracting, activeTab, apiKeys,
                    fetchModelsCall, fetchSessionsCall, extracts, guardReturns,
                    serverVars >>

\* the server handles a POST /session
ServerSession(i) ==
    /\ creates[i].pc = "sent"
    /\ LET body == Val(creates[i].body)
           resp == HandleSession(body)
       IN  /\ creates' = [creates EXCEPT ![i].pc = "replied", ![i].resp = Some(resp)]
           /\ store' = IF resp.status = 201 THEN Append(store, StoreCreate(body))
                       ELSE store
    /\ UNCHANGED << appVars, fetchModelsCall, fetchSessionsCall, extracts,
                    countVars, orch >>

\* the continuation of the await: lines 97-99
createSessionOk(i) ==
    /\ creates[i].pc = "replied"
    /\ IsSuccess(Val(creates[i].resp).status)
    /\ LET data == Val(creates[i].resp).data
       IN  /\ currentSession' = Some(data)
           /\ sessions' = Append(creates[i].captured, data)
           /\ activeTab' = "communicate"
           /\ creates' = [creates EXCEPT
                  ![i] = CreateCall("ok", Null, Null, << >>, @.overlap, data.id)]
    /\ UNCHANGED << models, hostLLM, targetLLM, protocol, query, result,
                    isExtracting, error, apiKeys, fetchModelsCall,
                    fetchSessionsCall, extracts, countVars, serverVars >>

\* the catch with setActiveTab('communicate') run on failure too, as if it had
\* been placed after the try block
createSessionCatch_SwitchesTab(i, resp) ==
    /\ error' = Some(DetailOr(resp, "Failed to create session"))
    /\ activeTab' = "communicate"
    /\ creates' = [creates EXCEPT
           ![i] = CreateCall("failed", Null, Null, << >>, @.overlap, 0)]
    /\ UNCHANGED << models, sessions, currentSession, hostLLM, targetLLM,
                    protocol, query, result, isExtracting, apiKeys,
                    fetchModelsCall, fetchSessionsCall, extracts, countVars,
                    serverVars >>

\* the catch: lines 100-103; resp is Null when the request got no response
createSessionCatch(i, resp) ==
    /\ error' = Some(DetailOr(resp, "Failed to create session"))
    /\ creates' = [creates EXCEPT
           ![i] = CreateCall("failed", Null, Null, << >>, @.overlap, 0)]
    /\ UNCHANGED << models, sessions, currentSession, hostLLM, targetLLM,
                    protocol, query, result, isExtracting, activeTab, apiKeys,
                    fetchModelsCall, fetchSessionsCall, extracts, countVars,
                    serverVars >>

\* the response is an error status
createSessionRejected(i) ==
    /\ creates[i].pc = "replied"
    /\ ~IsSuccess(Val(creates[i].resp).status)
    /\ createSessionCatch(i, creates[i].resp)

\* the request or its response is lost
createSessionNetworkError(i) ==
    /\ creates[i].pc \in { "sent", "replied" }
    /\ createSessionCatch(i, Null)

-----------------------------------------------------------------------------
(* extractInformation *)

\* the guard of line 107 without the trim
extractRejected_NoTrim == currentSession = Null \/ query = << >>

\* the guard of line 107
extractRejected == currentSession = Null \/ Trim(query) = << >>

\* the body of lines 114-118 carrying the session's protocol
extractBody_SessionProtocol ==
    [session_id |-> Val(currentSession).id, query |-> Trim(query),
     protocol |-> Val(currentSession).protocol]

\* the body of lines 114-118
extractBody ==
    [session_id |-> Val(currentSession).id, query |-> Trim(query),
     protocol |-> protocol]

\* lines 109-118 without setResult(null)
extractStart_KeepsResult ==
    /\ isExtracting' = TRUE
    /\ error' = Null
    /\ extracts' = Append(extracts, Call("sent", Some(extractBody), Null))
    /\ UNCHANGED << result, activeTab >>

\* lines 109-118: up to the await
extractStart ==
    /\ isExtracting' = TRUE
    /\ error' = Null
    /\ result' = Null
    /\ extracts' = Append(extracts, Call("sent", Some(extractBody), Null))
    /\ UNCHANGED activeTab

extractInformation ==
    /\ Op
    /\ IF extractRejected
       THEN /\ guardReturns' = guardReturns + 1
            /\ UNCHANGED << isExtracting, error, result, extracts, activeTab >>
       ELSE /\ extractStart
            /\ UNCHANGED guardReturns
    /\ UNCHANGED << models, sessions, currentSession, hostLLM, targetLLM,
                    protocol, query, apiKeys, fetchModelsCall,
                    fetchSessionsCall, creates, serverVars >>

\* the Extract button with disabled={!query.trim()}
ExtractButtonEnabled_IgnoresBusy ==
    /\ currentSession # Null
    /\ ~(Trim(query) = << >>)

\* the Extract button is rendered for a current session, and
\* disabled={!query.trim() || isExtracting}
ExtractButtonEnabled ==
    /\ currentSession # Null
    /\ ~(Trim(query) = << >> \/ isExtracting)

ClickExtract == ExtractButtonEnabled /\ extractInformation

\* the message the catch of lines 122-135 sets
extractError(resp) ==
    LET status == IF resp # Null THEN Val(resp).status ELSE 0
    IN  IF status = 429
        THEN "API quota exceeded. Please check your OpenAI billing plan or try again later."
        ELSE IF status = 401
        THEN "API authentication failed. Please check your API keys."
        ELSE IF status = 400 /\ DetailOr(resp, "") # ""
                /\ IncludesOnlyOpenAI(DetailOr(resp, ""))
        THEN Val(resp).data.detail
        ELSE DetailOr(resp, "Extraction failed. Please try again.")

\* lines 120-121 with the current session's protocol overwritten by the
\* protocol the extraction used
extractThen_SyncsProtocol(i, resp) ==
    /\ result' = Some(resp.data)
    /\ activeTab' = "results"
    /\ isExtracting' = FALSE
    /\ extracts' = [extracts EXCEPT ![i].pc = "ok"]
    /\ currentSession' =
           Some([Val(currentSession) EXCEPT !.protocol = resp.data.protocol_used])
    /\ UNCHANGED error

\* lines 120-121, then the finally
extractThen(i, resp) ==
    /\ result' = Some(resp.data)
    /\ activeTab' = "results"
    /\ isExtracting' = FALSE
    /\ extracts' = [extracts EXCEPT ![i].pc = "ok"]
    /\ UNCHANGED << error, currentSession >>

\* the catch sending the request once more
extractCatch_Retries(i, resp) ==
    /\ error' = Some(extractError(resp))
    /\ isExtracting' = FALSE
    /\ extracts' = Append([extracts EXCEPT ![i].pc = "failed", ![i].resp = resp],
                          Call("sent", extracts[i].body, Null))
    /\ UNCHANGED << result, activeTab, currentSession >>

\* the catch without the finally
extractCatch_NoFinally(i, resp) ==
    /\ error' = Some(extractError(resp))
    /\ extracts' = [extracts EXCEPT ![i].pc = "failed", ![i].resp = resp]
    /\ UNCHANGED << isExtracting, result, activeTab, currentSession >>

\* the catch, then the finally; resp is Null when the request got no response
extractCatch(i, resp) ==
    /\ error' = Some(extractError(resp))
    /\ isExtracting' = FALSE
    /\ extracts' = [extracts EXCEPT ![i].pc = "failed", ![i].resp = resp]
    /\ UNCHANGED << result, activeTab, currentSession >>

extractFrame ==
    UNCHANGED << models, sessions, hostLLM, targetLLM, protocol, query, apiKeys,
                 fetchModelsCall, fetchSessionsCall, creates, countVars,
                 serverVars >>

\* The server answers a POST /extract and the answer arrives.  Handling the
\* request only reads the store, whose entries never change, so the answer is
\* the same whenever between the send and the arrival the server computes it.
extractResponse(i) ==
    /\ extracts[i].pc = "sent"
    /\ \E resp \in HandleExtract(Val(extracts[i].body)) :
           IF IsSuccess(resp.status) THEN extractThen(i, resp)
           ELSE extractCatch(i, Some(resp))
    /\ extractFrame

\* the request or its response is lost
extractNetworkError(i) ==
    /\ extracts[i].pc = "sent"
    /\ extractCatch(i, Null)
    /\ extractFrame

-----------------------------------------------------------------------------
(* Specification: the page as the operator drives it *)

FormNext ==
    \/ SetHostProvider \/ SetHostModel \/ SetTargetProvider \/ SetTargetModel
    \/ SetProtocol \/ SetApiKey \/ SetQuery \/ SetActiveTab \/ ClearError

FetchNext ==
    \/ fetchModelsOk \/ fetchModelsFailed
    \/ ServerSessions \/ fetchSessionsOk \/ fetchSessionsFailed

CreateNext ==
    \/ createSession
    \/ \E i \in 1..Len(creates) :
           \/ ServerSession(i)
           \/ createSessionOk(i)
           \/ createSessionRejected(i)
           \/ createSessionNetworkError(i)

ExtractNext ==
    \E i \in 1..Len(extracts) :
        \/ extractResponse(i)
        \/ extractNetworkError(i)

Next == FormNext \/ FetchNext \/ CreateNext \/ ClickExtract \/ ExtractNext

Spec == Init /\ [][Next]_vars

\* The same page with extractInformation also called directly, whatever the
\* Extract button's state: the handler's own guard decides
NextDirect == Next \/ extractInformation

SpecDirect == Init /\ [][NextDirect]_vars

\* The page when every POST /extract returns or times out: the request of a
\* started extraction is eventually answered or given up, and its continuation
\* runs
SpecLive == Spec /\ WF_vars(ExtractNext)

-----------------------------------------------------------------------------
(* Specification: the orchestrator serving one POST /extract *)

\* a request for a stored session arrives: the body's protocol is applied
InitOrch ==
    /\ models = NoModels
    /\ sessions = << >>
    /\ currentSession = Null
    /\ hostLLM = DefaultHost
    /\ targetLLM = DefaultTarget
    /\ protocol = "mcp"
    /\ query = << >>
    /\ result = Null
    /\ isExtracting = FALSE
    /\ error = Null
    /\ activeTab = "setup"
    /\ apiKeys = [ p \in Providers |-> "" ]
    /\ fetchModelsCall = Call("sent", Null, Null)
    /\ fetchSessionsCall = Call("sent", Null, Null)
    /\ creates = << >>
    /\ extracts = << >>
    /\ guardReturns = 0
    /\ ops = 0
    /\ \E sess \in OrchSessions, id \in 1..2, q \in OrchQueries,
          proto \in protocols, fallback \in BOOLEAN :
          /\ store = << sess >>
          /\ orch = Extraction("Received", id, sess, q, proto, fallback, 0, 0,
                               "none", << >>, "none", Null)

NextOrch ==
    \/ OrchValidate
    \/ OrchDemo
    \/ OrchInvokeTarget
    \/ OrchTargetReturns
    \/ OrchHostReturns

SpecOrch == InitOrch /\ [][NextOrch]_vars

-----------------------------------------------------------------------------
(* Properties *)

Range(seq) == { seq[i] : i \in 1..Len(seq) }

\* the entries of seq with the given id
Occurrences(seq, id) == Cardinality({ i \in 1..Len(seq) : seq[i].id = id })

\* no key was supplied for the provider and it is not the default provider
NeedsKey(llm) == apiKeys[llm.provider] = "" /\ llm.provider # DefaultProvider

\* err is a message that asks for the key of provider p
NamesProvider(err, p) ==
    /\ err # Null
    /\ \E role \in { "host", "target" } :
           Val(err) = "Please provide " \o Capitalize(p) \o " API key for the "
                          \o role \o " LLM"

Blank(q) == \A i \in 1..Len(q) : IsSpace(q[i])

\* C2: an extractInformation with no current session, or with an empty or
\* whitespace-only query, sends no POST /extract and leaves result, error,
\* isExtracting and activeTab as they were.
C2_RejectedAtBoundary ==
    [][ extractInformation /\ (currentSession = Null \/ Blank(query))
        => UNCHANGED << extracts, result, error, isExtracting, activeTab >> ]_vars

\* extractInformation returned at its guard for a whitespace-only query
C2_Witness ==
    /\ guardReturns > 0
    /\ currentSession # Null
    /\ query = << " " >>
    /\ extracts = << >>

\* the extraction i ends in failure in this step
ExtractionFails(i) ==
    /\ i \in 1..Len(extracts)
    /\ extracts[i].pc = "sent"
    /\ extracts'[i].pc = "failed"

\* C3: when an extraction ends in failure, whatever the status code or the
\* transport error, result is null.
C3_NoResultAfterFailure ==
    [][ \A i \in 1..Len(extracts) : ExtractionFails(i) => result' = Null ]_vars

\* an extraction succeeded, the next one failed, and no result is held
C3_Witness ==
    /\ Len(extracts) = 2
    /\ extracts[1].pc = "ok"
    /\ extracts[2].pc = "failed"
    /\ result = Null

\* the calls i and j were awaiting their responses at the same time
Overlapped(i, j) == i \in creates[j].overlap \/ j \in creates[i].overlap

\* C4: when the second of two overlapping createSession calls that both
\* succeed is answered, the two sessions have distinct ids and the session
\* list holds each of them exactly once.
C4_ConcurrentCreates ==
    [][ \A i, j \in 1..Len(creates) :
            /\ creates[i].pc = "replied" /\ creates'[i].pc = "ok"
            /\ creates[j].pc = "ok" /\ Overlapped(i, j)
            => /\ creates'[i].id # creates'[j].id
               /\ Occurrences(sessions', creates'[i].id) = 1
               /\ Occurrences(sessions', creates'[j].id) = 1 ]_vars

\* the createSession call i ends in failure in this step
CreationFails(i) ==
    /\ i \in 1..Len(creates)
    /\ creates[i].pc \in { "sent", "replied" }
    /\ creates'[i].pc = "failed"

\* C5: a createSession that fails, because the POST /session is rejected or
\* lost or because the key check stops it, leaves sessions, currentSession and
\* activeTab as they were and sets an error.
C5_FailedCreateAddsNothing ==
    [][ \/ \E i \in 1..Len(creates) : CreationFails(i)
        \/ createSession /\ creates' = creates
        => /\ UNCHANGED << sessions, currentSession, activeTab >>
           /\ error' # Null ]_vars

\* a POST /session for droidspeak between two providers was rejected with 400
C5_Witness ==
    /\ \E i \in 1..Len(creates) : creates[i].pc = "failed"
    /\ error = Some(UnsupportedDetail("droidspeak"))
    /\ sessions = << >>
    /\ currentSession = Null

\* the sessions the page holds
Held == Range(sessions) \cup Range(currentSession)

\* C6: no step changes the host_llm, target_llm, protocol or status of a held
\* session: a session held before and after a step, in the list or as the
\* current session, is the same record, and it is active.
C6_SessionImmutable ==
    [][ \A s \in Held : \A t \in Held' :
            s.id = t.id => s = t /\ t.status = "active" ]_vars

\* with a session created, the protocol selection was changed and an
\* extraction failed with 401; the session is as it was created
C6_Witness ==
    /\ currentSession # Null
    /\ protocol # Val(currentSession).protocol
    /\ \E i \in 1..Len(extracts) :
           /\ extracts[i].pc = "failed"
           /\ extracts[i].resp # Null
           /\ Val(extracts[i].resp).status = 401
    /\ Val(currentSession).status = "active"

\* C7: the error shown for a failed POST /extract whose response has a detail
\* (400, 401, 429, 500) is that detail.
C7_ErrorIsServerDetail ==
    [][ \A i \in 1..Len(extracts) :
            /\ ExtractionFails(i)
            /\ extracts'[i].resp # Null
            /\ Val(extracts'[i].resp).status \in { 400, 401, 429, 500 }
            => error' = Some(Val(extracts'[i].resp).data.detail) ]_vars

\* C8: a request is sent only by an action of the operator, one per action: no
\* step adds more than one POST, a step that adds one is a click, and a call
\* that has ended is never sent again.
C8_NoAutomaticRetry ==
    [][ /\ Len(extracts') + Len(creates') <= Len(extracts) + Len(creates) + 1
        /\ Len(extracts') + Len(creates') > Len(extracts) + Len(creates)
           => ops' = ops + 1 /\ (createSession \/ extractInformation)
        /\ \A i \in 1..Len(extracts) :
               extracts[i].pc \in { "ok", "failed" } => extracts'[i] = extracts[i]
        /\ \A i \in 1..Len(creates) :
               creates[i].pc \in { "ok", "failed" } => creates'[i] = creates[i] ]_vars

\* an extraction and a session creation each failed and neither was sent again
C8_Witness ==
    /\ Len(extracts) = 1 /\ extracts[1].pc = "failed"
    /\ Len(creates) = 2 /\ creates[2].pc = "failed"

\* the target call of the running extraction has failed
TargetFailed == orch.target \notin { "none", "ok" }

\* C9: within one extraction the host provider is invoked only after the
\* target call has returned successfully and its answer was decoded; when the
\* target call fails the host is never invoked and the extraction is Failed
\* with the ErrorKind the target raised.
C9_TargetThenHost ==
    orch.state # "Idle" =>
        /\ orch.hostCalls <= 1 /\ orch.targetCalls <= 1
        /\ orch.state = "HostAnalyzing" => orch.hostCalls = 1
        /\ orch.hostCalls > 0 =>
              /\ orch.target = "ok"
              /\ orch.targetCalls = 1
              /\ orch.canonical = Decode(orch.protocol, orch.raw)
        /\ TargetFailed =>
              /\ orch.hostCalls = 0
              /\ orch.state = "Failed"
              /\ orch.kind = orch.target

\* a target call that was issued and failed with RateLimited
C9_Witness ==
    /\ orch.state = "Failed"
    /\ orch.targetCalls = 1
    /\ orch.target = "RateLimited"
    /\ orch.hostCalls = 0

\* the extraction's query is a demo trigger, or its session has no usable key
DemoCase ==
    /\ orch.state # "Idle"
    /\ DemoDetected(orch.sess, orch.query, orch.fallback)

\* the extraction is on the demo path or has completed it: no provider call,
\* and the result is labelled with the requested protocol
DemoOutcome ==
    /\ orch.state \in { "Received", "DemoShortcut", "Completed" }
    /\ orch.targetCalls = 0
    /\ orch.hostCalls = 0
    /\ orch.state = "Completed" =>
          /\ orch.result # Null
          /\ Val(orch.result).target_response # << >>
          /\ Val(orch.result).host_analysis # ""
          /\ Val(orch.result).protocol_used = orch.protocol

\* step 1 lets the request through
PassesValidation ==
    /\ Trim(orch.query) # << >>
    /\ orch.session_id \in StoreIds
    /\ CrossProviderOk(orch.sess.host_llm, orch.sess.target_llm, orch.protocol)

\* C10 as stated: every extraction whose query contains "demo" or "test", or
\* whose session has no usable key for either provider, completes with a
\* non-empty result labelled with the requested protocol, calls no provider and
\* never ends in Failed.
C10_DemoNeverFails == DemoCase => DemoOutcome

\* C10, amended: an extraction that passes validation (known session, query
\* not blank, provider restriction of the protocol met) and whose query
\* contains "demo" or "test", or whose session has no usable key for either
\* provider, completes with a non-empty result labelled with the requested
\* protocol, calls no provider and never ends in Failed.
C10_ValidatedDemoNeverFails == DemoCase /\ PassesValidation => DemoOutcome

\* a demo query completed for a session that does hold a key for its target
C10_Witness ==
    /\ DemoCase
    /\ PassesValidation
    /\ orch.state = "Completed"
    /\ IsDemoQuery(orch.query)
    /\ HasUsableKey(orch.sess.credential_bag, orch.sess.target_llm.provider,
                    orch.fallback)
    /\ Val(orch.result).protocol_used = orch.protocol

\* decoding the target's answer raised a ProtocolDecodeFailure, and the
\* extraction went on with the raw answer: it is analysed by the host, it can
\* fail only on the host's side, and a completed result carries the raw text
DecodeFailureRecovered ==
    /\ orch.canonical = orch.raw
    /\ orch.state \in { "HostAnalyzing", "Completed", "Failed" }
    /\ orch.state = "Failed" =>
          \/ orch.hostCalls = 1
          \/ ~HasUsableKey(orch.sess.credential_bag, orch.sess.host_llm.provider,
                           orch.fallback)
    /\ orch.state = "Completed" =>
          /\ orch.hostCalls = 1
          /\ Val(orch.result).target_response = orch.raw
          /\ Val(orch.result).target_response # << >>

\* C11 as stated: a ProtocolDecodeFailure raised while decoding the target's
\* answer never fails the extraction: the orchestrator falls back to the raw
\* text, proceeds to host analysis, and a completed result's target_response
\* is non-empty.
C11_DecodeFailureNeverFails ==
    orch.state # "Idle" /\ orch.decodeFailed => DecodeFailureRecovered

\* C11, amended: a ProtocolDecodeFailure raised while decoding a non-empty
\* answer of the target never fails the extraction: the orchestrator falls
\* back to the raw text, proceeds to host analysis, and a completed result's
\* target_response is non-empty (an empty answer fails with Unknown).
C11_DecodeFailureRecovered ==
    /\ orch.state # "Idle" /\ orch.decodeFailed /\ orch.raw # << >>
          => DecodeFailureRecovered
    /\ orch.state # "Idle" /\ orch.decodeFailed /\ orch.raw = << >>
          => orch.state = "Failed" /\ orch.kind = "Unknown" /\ orch.hostCalls = 0

\* a DroidSpeak answer with a corrupted header, completed on its raw text
C11_Witness ==
    /\ orch.state = "Completed"
    /\ orch.protocol = "droidspeak"
    /\ orch.decodeFailed
    /\ orch.raw = << "X", "1", "2", "o", "k" >>
    /\ Val(orch.result).target_response = orch.raw

\* extraction i ends in this step with exactly one outcome recorded: its
\* result, or its error
RecordsOneOutcome(i) ==
    /\ extracts[i].pc = "sent"
    /\ \/ /\ extracts'[i].pc = "ok"
          /\ result' # Null
          /\ error' = error
       \/ /\ extracts'[i].pc = "failed"
          /\ error' # Null
          /\ result' = result
          /\ result' = Null

\* C12: every started extraction eventually finishes: once isExtracting is
\* true it eventually is false again, and the step that resets it is the end
\* of an extraction that recorded exactly one outcome, a result or an error.
C12_ExtractionFinishes ==
    /\ isExtracting ~> ~isExtracting
    /\ [][ isExtracting /\ ~isExtracting'
              => \E i \in 1..Len(extracts) : RecordsOneOutcome(i) ]_vars

\* an extraction was started, failed, and the page is idle again with its error
C12_Witness ==
    /\ ~isExtracting
    /\ Len(extracts) = 1
    /\ extracts[1].pc = "failed"
    /\ extracts[1].resp # Null
    /\ error # Null
    /\ result = Null

\* llm is an entry of the loaded registry's list for its provider
InRegistry(llm) ==
    /\ llm.provider \in DOMAIN models
    /\ llm \in Range(models[llm.provider])

\* values a select can be given: those of the registry and one outside it
AnyProvider == Providers \cup { "mistral" }

AnyModelName ==
    UNION { { Registry[p][i].model_name : i \in 1..Len(Registry[p]) } :
            p \in Providers } \cup { "gpt-5" }

\* the provider select gives sel the first-listed model of a listed provider
\* and leaves it alone otherwise; the model select gives it the listed model
\* of that name and leaves it alone otherwise
SelectsFromRegistry(sel) ==
    /\ \A p \in AnyProvider :
          ProviderChange(sel, p) =
              IF p \in DOMAIN models THEN models[p][1] ELSE sel
    /\ \A m \in AnyModelName :
          IF m \in ModelOptions(sel)
          THEN /\ InRegistry(ModelChange(sel, m))
               /\ ModelChange(sel, m).model_name = m
               /\ ModelChange(sel, m).provider = sel.provider
          ELSE ModelChange(sel, m) = sel

SendsExtract == Len(extracts') = Len(extracts) + 1

\* the body of the request this step sends
SentBody == Val(extracts'[Len(extracts')].body)

\* C14 as stated: the protocol sent with every POST /extract is the protocol
\* of the session it is sent for, also after the protocol selection changed.
C14_SendsSessionProtocol ==
    [][ SendsExtract => SentBody.protocol = Val(currentSession).protocol ]_vars

\* C14, amended: the protocol sent with every POST /extract, for the current
\* session, is the protocol selected in the form when the request is sent; it
\* is the session's protocol exactly when the selection still is.
C14_SendsSelectedProtocol ==
    [][ SendsExtract =>
            /\ SentBody.session_id = Val(currentSession).id
            /\ SentBody.protocol = protocol
            /\ SentBody.protocol = Val(currentSession).protocol
                  <=> protocol = Val(currentSession).protocol ]_vars

\* a request was sent for a stored session with another protocol than the
\* session's
C14_Witness ==
    \E i \in 1..Len(extracts) :
        /\ Val(extracts[i].body).session_id \in StoreIds
        /\ Val(extracts[i].body).protocol
              # StoreGet(Val(extracts[i].body).session_id).protocol

\* extraction i completed with the held result and was sent for session id
ResultOf(i, id) ==
    /\ extracts[i].pc = "ok"
    /\ Val(extracts[i].body).session_id = id
    /\ Val(result).query = Val(extracts[i].body).query
    /\ Val(result).protocol_used = Val(extracts[i].body).protocol

\* C15: a held result belongs to the current session: whenever result is
\* non-null there is a current session and the result is the response of an
\* extraction that was sent with its id.
C15_ResultOfCurrentSession ==
    result # Null =>
        /\ currentSession # Null
        /\ \E i \in 1..Len(extracts) : ResultOf(i, Val(currentSession).id)

\* C16: result and error are never both non-null: whenever an error is
\* displayed no result is held.
C16_ResultXorError == ~(result # Null /\ error # Null)

\* the POST /extract requests in flight
InFlight == { i \in 1..Len(extracts) : extracts[i].pc = "sent" }

\* C17: at most one extraction is in flight at any time, isExtracting is true
\* exactly when a POST /extract is in flight, and a request is sent only from
\* a state where isExtracting is false and the trimmed query is not empty.
C17_OneExtractionInFlight ==
    /\ [](/\ Cardinality(InFlight) <= 1
          /\ isExtracting <=> InFlight # {})
    /\ [][ SendsExtract => ~isExtracting /\ Trim(query) # << >> ]_vars

\* a second extraction is in flight after the first one has finished
C17_Witness ==
    /\ Len(extracts) = 2
    /\ extracts[1].pc # "sent"
    /\ InFlight = { 2 }
    /\ isExtracting

\* C18: the current session is always listed: whenever currentSession is
\* non-null the session list has an entry with its id.
C18_CurrentSessionListed ==
    currentSession # Null =>
        \E i \in 1..Len(sessions) : sessions[i].id = Val(currentSession).id

====
